---- MODULE Spec2Model ----
(***************************************************************************)
(* Model of the Instagram downloader back end: the InstagramService         *)
(* (URL classifier, fast extractor, browser-driven extractor, cache), the  *)
(* MemStorage job store and the processDownload pipeline of routes.ts.     *)
(*                                                                         *)
(* A URL is a sequence of tokens.  The separators "/", "?" and "&" are     *)
(* tokens of their own and no other token contains one of them, so that    *)
(* String.includes and the anchored regular expressions of the source are  *)
(* computed on the token sequence exactly as the source computes them on   *)
(* the characters.                                                         *)
(***************************************************************************)
EXTENDS Integers, Sequences, FiniteSets, TLC

(***************************************************************************)
(* Bounds of the model.                                                    *)
(***************************************************************************)
MaxTasks == 2
MaxTicks == 2

(***************************************************************************)
(* Program constants.                                                      *)
(***************************************************************************)
CACHE_TTL == 300000
TickMs == CACHE_TTL \div 2

Tasks == 1..MaxTasks

(***************************************************************************)
(* URLs.                                                                   *)
(***************************************************************************)
UrlPost == <<"https:", "/", "/", "www.", "instagram.com", "/", "p", "/", "ABC123">>
UrlPostTracked == UrlPost \o <<"?", "utm_source=ig">>
UrlReel == <<"https:", "/", "/", "instagram.com", "/", "reel", "/", "XYZ">>
UrlStory == <<"https:", "/", "/", "www.", "instagram.com", "/", "stories", "/", "some.user", "/", "999">>
UrlTv == <<"http:", "/", "/", "instagram.com", "/", "tv", "/", "T-1">>
UrlOtherDomain == <<"https:", "/", "/", "evil.com", "/", "p", "/", "ABC123">>
UrlProfile == <<"https:", "/", "/", "www.", "instagram.com", "/", "someuser">>

ValidUrls == {UrlPost, UrlPostTracked, UrlReel, UrlStory, UrlTv}
Urls == ValidUrls \cup {UrlOtherDomain, UrlProfile}

\* Tokens made only of characters of [\w-]
WordDashTokens == {"ABC123", "XYZ", "999", "T-1", "someuser", "p", "reel", "reels", "stories", "tv"}
\* Tokens made only of characters of [\w.-]
WordDotDashTokens == WordDashTokens \cup {"some.user", "instagram.com", "www.", "evil.com", "instagram.com.evil.com", ".."}
\* Tokens whose first character is in [\w-]
StartsWordDash == (WordDotDashTokens \ {".."}) \cup {"utm_source=ig", "utm_medium=x", "utm_campaign=y", "igshid=abc", "hl=en", "img_index=2", "https:", "http:", "ftp:", "AB$12", "hello world"}
\* Tokens that end with the characters instagram.com
EndsInstagramCom == {"instagram.com"}

Tok(url, i) == IF i \in 1..Len(url) THEN url[i] ELSE ""

\* String.includes("/" + seg + "/")
IncludesSegment(url, seg) ==
  \E i \in 1..Len(url) : Tok(url, i) = "/" /\ Tok(url, i + 1) = seg /\ Tok(url, i + 2) = "/"

\* The classifier testing the segments in another order
detectContentType_StoriesFirst(url) ==
  IF IncludesSegment(url, "stories") THEN "story"
  ELSE IF IncludesSegment(url, "reel") THEN "reel"
  ELSE IF IncludesSegment(url, "tv") THEN "igtv"
  ELSE "post"

detectContentType(url) ==
  IF IncludesSegment(url, "reel") THEN "reel"
  ELSE IF IncludesSegment(url, "stories") THEN "story"
  ELSE IF IncludesSegment(url, "tv") THEN "igtv"
  ELSE IF IncludesSegment(url, "p") THEN "post"
  ELSE "post"

\* Index of the token after ^https?:\/\/(www\.)?instagram\.com\/ , or 0
AfterHost(url) ==
  IF Tok(url, 1) \in {"http:", "https:"} /\ Tok(url, 2) = "/" /\ Tok(url, 3) = "/"
  THEN IF Tok(url, 4) = "www." /\ Tok(url, 5) = "instagram.com" /\ Tok(url, 6) = "/" THEN 7
       ELSE IF Tok(url, 4) = "instagram.com" /\ Tok(url, 5) = "/" THEN 6
       ELSE 0
  ELSE 0

\* ^https?:\/\/(www\.)?instagram\.com\/<seg>\/[\w-]+
MatchesShape(url, seg) ==
  LET h == AfterHost(url)
  IN  h # 0 /\ Tok(url, h) = seg /\ Tok(url, h + 1) = "/" /\ Tok(url, h + 2) \in StartsWordDash

\* ^https?:\/\/(www\.)?instagram\.com\/stories\/[\w.-]+\/[\w-]+
MatchesStoryShape(url) ==
  LET h == AfterHost(url)
  IN  h # 0 /\ Tok(url, h) = "stories" /\ Tok(url, h + 1) = "/"
      /\ Tok(url, h + 2) \in WordDotDashTokens /\ Tok(url, h + 3) = "/"
      /\ Tok(url, h + 4) \in StartsWordDash

validateInstagramUrl(url) ==
  \/ MatchesShape(url, "p")
  \/ MatchesShape(url, "reel")
  \/ MatchesStoryShape(url)
  \/ MatchesShape(url, "tv")

TrackingParams == {"utm_source=ig", "utm_medium=x", "utm_campaign=y", "igshid=abc", "hl=en"}

RECURSIVE IndexOf(_, _, _)
\* Index of the first occurrence of tok in url at or after i, or 0
IndexOf(url, tok, i) ==
  IF i > Len(url) THEN 0
  ELSE IF url[i] = tok THEN i
  ELSE IndexOf(url, tok, i + 1)

RECURSIVE JoinParams(_)
JoinParams(ps) ==
  IF Len(ps) = 0 THEN <<>>
  ELSE IF Len(ps) = 1 THEN ps
  ELSE <<Head(ps), "&">> \o JoinParams(Tail(ps))

IsKeptParam(tok) == tok # "&" /\ tok \notin TrackingParams

\* new URL(url), searchParams.delete of the five tracking keys, toString()
normalizeUrl(url) ==
  LET q == IndexOf(url, "?", 1)
  IN  IF q = 0 THEN url
      ELSE LET kept == SelectSeq(SubSeq(url, q + 1, Len(url)), IsKeptParam)
           IN  IF Len(kept) = 0 THEN SubSeq(url, 1, q - 1)
               ELSE SubSeq(url, 1, q - 1) \o <<"?">> \o JoinParams(kept)

\* The cache key of the revision that keys the cache by the raw URL
rawUrlKey(url) == url

ShortcodeSegments == {"p", "reel", "reels", "stories"}
\* Tokens made only of characters of [A-Za-z0-9_.]
AlnumDotTokens == WordDotDashTokens \ {"T-1"}

\* instagram\.com\/(?:[A-Za-z0-9_.]+\/)?(p|reels?|reel|stories)\/([A-Za-z0-9-_]+)
HasShortcode(url) ==
  \E i \in 1..Len(url) :
    /\ Tok(url, i) \in EndsInstagramCom
    /\ Tok(url, i + 1) = "/"
    /\ \/ /\ Tok(url, i + 2) \in ShortcodeSegments
          /\ Tok(url, i + 3) = "/"
          /\ Tok(url, i + 4) \in StartsWordDash
       \/ /\ Tok(url, i + 2) \in AlnumDotTokens
          /\ Tok(url, i + 3) = "/"
          /\ Tok(url, i + 4) \in ShortcodeSegments
          /\ Tok(url, i + 5) = "/"
          /\ Tok(url, i + 6) \in StartsWordDash

\* url.match(/instagram\.com\/([^\/]+)/): the first path segment
FirstPathSegment(url) ==
  LET i == IndexOf(url, "instagram.com", 1)
  IN  IF i # 0 /\ Tok(url, i + 1) = "/" /\ Tok(url, i + 2) \notin {"", "/"}
      THEN Tok(url, i + 2) ELSE ""

\* url.match(/instagram\.com\/stories\/([^\/]+)/)
StoryUser(url) ==
  LET i == IndexOf(url, "instagram.com", 1)
  IN  IF i # 0 /\ Tok(url, i + 1) = "/" /\ Tok(url, i + 2) = "stories"
         /\ Tok(url, i + 3) = "/" /\ Tok(url, i + 4) \notin {"", "/"}
      THEN Tok(url, i + 4) ELSE ""

(***************************************************************************)
(* Media URLs that a page or a JSON reply of the site can carry, with the  *)
(* substrings the source tests for.                                        *)
(***************************************************************************)
VidMp4 == "https://scontent.cdninstagram.com/v/clip.mp4"
VidHls == "https://scontent.cdninstagram.com/v/clip.m3u8"
VidBlob == "blob:https://www.instagram.com/1f3a"
ImgFull == "https://scontent.cdninstagram.com/v/t51.2885-15/full.jpg"
ImgSecond == "https://scontent.fbcdn.net/v/t51.2885-15/second.jpg"
ImgProfile == "https://scontent.cdninstagram.com/v/t51.2885-19/profile_pic.jpg"
ImgForeign == "https://example.com/og.jpg"

\* What each URL is a resource of, whatever the text of the URL
VideoResources == {VidMp4, VidHls, VidBlob}
ImageResources == {ImgFull, ImgSecond, ImgProfile, ImgForeign}

IncludesMp4(u) == u \in {VidMp4}
IncludesCdn(u) == u \in {VidMp4, VidHls, ImgFull, ImgSecond, ImgProfile}
IncludesBlob(u) == u \in {VidBlob}
IncludesRsrc(u) == FALSE
IncludesJpg(u) == u \in {ImgFull, ImgSecond, ImgProfile, ImgForeign}
\* profile_pic, dst-jpg_s or t51.2885-19
IncludesThumbToken(u) == u \in {ImgProfile}

\* The filter of the image candidates
ImageFilter(u) ==
  (IncludesCdn(u)) /\ ~IncludesRsrc(u) /\ ~IncludesThumbToken(u)

\* The filter of the video candidates found in script payloads
VideoFilter(u) ==
  IncludesCdn(u) /\ ~IncludesRsrc(u) /\ IncludesMp4(u)

RECURSIVE Dedupe(_)
\* Array.from(new Set(xs)): first occurrences, in order
Dedupe(xs) ==
  IF Len(xs) = 0 THEN <<>>
  ELSE LET rest == Dedupe(SubSeq(xs, 1, Len(xs) - 1))
           x == xs[Len(xs)]
       IN  IF \E i \in 1..Len(rest) : rest[i] = x THEN rest ELSE Append(rest, x)

RECURSIVE BestOfFrom(_, _, _, _)
\* The widest candidate of one display_resources / image_versions2 group
\* that passes the image filter ("" when none does)
BestOfFrom(group, i, bestUrl, maxWidth) ==
  IF i > Len(group) THEN bestUrl
  ELSE IF group[i][2] > maxWidth /\ ImageFilter(group[i][1])
       THEN BestOfFrom(group, i + 1, group[i][1], group[i][2])
       ELSE BestOfFrom(group, i + 1, bestUrl, maxWidth)

RECURSIVE BestOfGroups(_)
BestOfGroups(groups) ==
  IF Len(groups) = 0 THEN <<>>
  ELSE LET b == BestOfFrom(Head(groups), 1, "", 0)
       IN  (IF b # "" THEN <<b>> ELSE <<>>) \o BestOfGroups(Tail(groups))

(***************************************************************************)
(* Pages of the site: what the HTML (and, in the browser, the DOM) carries. *)
(***************************************************************************)
NoPage == [scriptVideo |-> <<>>, groups |-> <<>>, displayUrl |-> <<>>,
           videoEls |-> <<>>, ogVideo |-> "", ogImage |-> "", titleUser |-> "",
           ogDescription |-> "",
           responses |-> <<>>]
PageEmpty == NoPage
PageDisplayUrlOnly == [NoPage EXCEPT !.displayUrl = <<ImgFull, ImgProfile, ImgFull>>]
PageVideo == [NoPage EXCEPT !.scriptVideo = <<VidMp4, VidMp4>>, !.videoEls = <<VidMp4>>,
                            !.ogVideo = VidMp4, !.ogImage = ImgFull,
                            !.ogDescription = "a clip"]
PageOgVideoHls == [NoPage EXCEPT !.ogVideo = VidHls, !.ogImage = ImgForeign]
PageCarousel == [NoPage EXCEPT !.groups = << <<(<<ImgProfile, 1440>>), (<<ImgSecond, 320>>), (<<ImgFull, 1080>>)>>,
                                             <<(<<ImgSecond, 640>>)>> >>,
                               !.ogImage = ImgFull, !.titleUser = "natgeo"]
\* A page whose media appear in no markup: the player fetched them
PageNetworkOnly == [NoPage EXCEPT !.responses = <<VidMp4, ImgFull, VidMp4>>]
Pages == {PageEmpty, PageDisplayUrlOnly, PageVideo, PageOgVideoHls, PageCarousel}

(***************************************************************************)
(* Replies of the JSON endpoint /p/<shortcode>/?__a=1&__d=dis.             *)
(***************************************************************************)
NoItem == [isObject |-> TRUE, wellFormed |-> TRUE, video_versions |-> <<>>,
           candidates |-> <<>>, username |-> "", caption |-> "",
           like_count |-> 0, comment_count |-> 0, view_count |-> 0]
JsonNotObject == [NoItem EXCEPT !.isObject = FALSE]
JsonMalformed == [NoItem EXCEPT !.wellFormed = FALSE]
JsonBare == NoItem
JsonVideo == [NoItem EXCEPT !.video_versions = <<VidMp4, VidHls>>,
                            !.candidates = << <<ImgFull, 1080>> >>,
                            !.username = "natgeo", !.view_count = 1200]
JsonImages == [NoItem EXCEPT !.candidates = << <<ImgSecond, 320>>, <<ImgFull, 1080>> >>,
                             !.username = "natgeo", !.caption = "two pictures",
                             !.like_count = 7, !.view_count = 1200]
JsonReplies == {JsonNotObject, JsonMalformed, JsonBare, JsonVideo, JsonImages}

RECURSIVE InsertByWidth(_, _)
\* Insert c after every candidate at least as wide (a stable descending sort)
InsertByWidth(sorted, c) ==
  IF Len(sorted) = 0 THEN <<c>>
  ELSE IF Head(sorted)[2] >= c[2] THEN <<Head(sorted)>> \o InsertByWidth(Tail(sorted), c)
  ELSE <<c>> \o sorted

RECURSIVE SortByWidth(_)
\* candidates.sort((a, b) => (b.width || 0) - (a.width || 0))
SortByWidth(cs) ==
  IF Len(cs) = 0 THEN <<>>
  ELSE InsertByWidth(SortByWidth(SubSeq(cs, 1, Len(cs) - 1)), cs[Len(cs)])

RECURSIVE UrlsOf(_)
UrlsOf(cs) == IF Len(cs) = 0 THEN <<>> ELSE <<Head(cs)[1]>> \o UrlsOf(Tail(cs))

IsVideoType(ctype) == ctype = "reel" \/ ctype = "igtv"

\* views / duration: <<>> stands for undefined
Meta(ctype, username, caption, thumbnail, mediaUrls, likes, comments, views, count) ==
  [type |-> ctype, username |-> username, caption |-> caption,
   thumbnail |-> thumbnail, mediaUrls |-> mediaUrls, likes |-> likes,
   comments |-> comments, views |-> views,
   duration |-> IF IsVideoType(ctype) THEN <<"0:00">> ELSE <<>>,
   mediaCount |-> count]

NoMeta == Meta("post", "", "", "", <<>>, 0, 0, <<>>, 0)

Success(meta) == [ok |-> TRUE, meta |-> meta, msg |-> ""]
Failure(msg) == [ok |-> FALSE, meta |-> NoMeta, msg |-> msg]

\* The JSON stage returning its object whether or not it found media
FastJsonStage_NoEmptyCheck(url, item) ==
  LET ctype == detectContentType(url)
      videoUrls == SelectSeq(item.video_versions, IncludesMp4)
      imageUrls == UrlsOf(SortByWidth(item.candidates))
      mediaUrls == IF IsVideoType(ctype) THEN videoUrls ELSE imageUrls
  IN  IF ~item.isObject THEN Failure("fallthrough")
      ELSE IF ~item.wellFormed THEN Failure("TypeError")
      ELSE Success(Meta(ctype,
                        IF item.username # "" THEN item.username ELSE "instagram_user",
                        IF item.caption # "" THEN item.caption ELSE "Instagram content",
                        IF Len(imageUrls) > 0 THEN imageUrls[1] ELSE "",
                        mediaUrls, item.like_count, item.comment_count,
                        IF item.view_count # 0 THEN <<item.view_count>>
                        ELSE IF IsVideoType(ctype) THEN <<0>> ELSE <<>>,
                        Len(mediaUrls)))

\* The JSON stage of extractMetadataFast; "fallthrough" sends the call on to
\* the HTML stage
FastJsonStage(url, item) ==
  LET ctype == detectContentType(url)
      videoUrls == SelectSeq(item.video_versions, IncludesMp4)
      imageUrls == UrlsOf(SortByWidth(item.candidates))
      mediaUrls == IF IsVideoType(ctype) THEN videoUrls ELSE imageUrls
  IN  IF ~item.isObject THEN Failure("fallthrough")
      ELSE IF ~item.wellFormed THEN Failure("TypeError")
      ELSE IF Len(mediaUrls) > 0
      THEN Success(Meta(ctype,
                        IF item.username # "" THEN item.username ELSE "instagram_user",
                        IF item.caption # "" THEN item.caption ELSE "Instagram content",
                        IF Len(imageUrls) > 0 THEN imageUrls[1] ELSE "",
                        mediaUrls, item.like_count, item.comment_count,
                        IF item.view_count # 0 THEN <<item.view_count>>
                        ELSE IF IsVideoType(ctype) THEN <<0>> ELSE <<>>,
                        Len(mediaUrls)))
      ELSE Failure("fallthrough")

UsernameFrom(titleUser, url) ==
  IF titleUser # "" THEN titleUser
  ELSE IF FirstPathSegment(url) # "" THEN FirstPathSegment(url)
  ELSE "instagram_user"

\* The reel / igtv branch of the selection of extractMetadataFast (<<>>: throw)
FastVideoSelection(videoUrls, imageUrls, ogVideo) ==
  IF Len(videoUrls) > 0 THEN videoUrls
  ELSE IF ogVideo # "" /\ IncludesMp4(ogVideo) THEN <<ogVideo>>
  ELSE <<>>

\* The HTML stage of extractMetadataFast
FastHtmlStage(url, page) ==
  LET ctype == detectContentType(url)
      videoUrls == Dedupe(SelectSeq(page.scriptVideo, VideoFilter))
      hiRes == Dedupe(BestOfGroups(page.groups))
      imageUrls == IF Len(hiRes) = 0
                   THEN Dedupe(SelectSeq(page.displayUrl, LAMBDA u : IncludesJpg(u) /\ ImageFilter(u)))
                   ELSE hiRes
      mediaUrls == IF IsVideoType(ctype)
                   THEN FastVideoSelection(videoUrls, imageUrls, page.ogVideo)
                   ELSE IF Len(imageUrls) > 0 THEN imageUrls
                   ELSE IF page.ogImage # "" THEN <<page.ogImage>>
                   ELSE <<>>
      thumbnail == IF page.ogImage # "" THEN page.ogImage
                   ELSE IF Len(imageUrls) > 0 THEN imageUrls[1] ELSE ""
  IN  IF Len(mediaUrls) = 0
      THEN Failure(IF IsVideoType(ctype) THEN "No video content found in fast extraction"
                   ELSE "No image content found in fast extraction")
      ELSE IF ctype = "post" /\ thumbnail = ""
      THEN Failure("No thumbnail found for image post")
      ELSE Success(Meta(ctype, UsernameFrom(page.titleUser, url),
                        IF page.ogDescription # "" THEN page.ogDescription ELSE "Instagram content",
                        thumbnail, mediaUrls, 0, 0,
                        IF IsVideoType(ctype) THEN <<0>> ELSE <<>>,
                        Len(mediaUrls)))

OgUsable(u) == u # "" /\ ~IncludesBlob(u) /\ IncludesCdn(u) /\ ~IncludesRsrc(u)

BrowserVideoSelection_ImageFallback(videoUrls, imageUrls, ogVideo) ==
  IF Len(videoUrls) > 0 THEN videoUrls
  ELSE IF ogVideo # "" /\ ~IncludesBlob(ogVideo) /\ IncludesMp4(ogVideo) THEN <<ogVideo>>
  ELSE imageUrls

\* The reel / igtv branch of the selection of the browser path (<<>>: throw)
BrowserVideoSelection(videoUrls, imageUrls, ogVideo) ==
  IF Len(videoUrls) > 0 THEN videoUrls
  ELSE IF ogVideo # "" /\ ~IncludesBlob(ogVideo) /\ IncludesMp4(ogVideo) THEN <<ogVideo>>
  ELSE <<>>

\* The story branch of the selection of the browser path (<<>>: throw)
StorySelection(videoUrls, imageUrls, ogVideo, ogImage) ==
  IF Len(videoUrls) > 0 THEN videoUrls
  ELSE IF Len(imageUrls) > 0 THEN imageUrls
  ELSE IF OgUsable(ogVideo) THEN <<ogVideo>>
  ELSE IF OgUsable(ogImage) THEN <<ogImage>>
  ELSE <<>>

\* What page.evaluate returns: the video and image candidates of the DOM
EvaluatedVideoUrls(page) ==
  Dedupe(SelectSeq(page.videoEls, LAMBDA u : IncludesCdn(u) /\ IncludesMp4(u))
         \o SelectSeq(page.scriptVideo, VideoFilter)
         \o (IF page.ogVideo # "" /\ ~IncludesBlob(page.ogVideo) /\ IncludesCdn(page.ogVideo)
             THEN <<page.ogVideo>> ELSE <<>>))

EvaluatedImageUrls(page) ==
  LET hiRes == BestOfGroups(page.groups)
  IN  Dedupe(IF Len(hiRes) = 0
             THEN SelectSeq(page.displayUrl, LAMBDA u : IncludesJpg(u) /\ ImageFilter(u))
             ELSE hiRes)

\* The browser-driven extraction from the rendered page: from page.evaluate
\* to the metadata object.  evalOk = FALSE: page.evaluate rejected and its
\* .catch supplied empty candidate lists.
BrowserStage(url, page, evalOk) ==
  LET ctype == detectContentType(url)
      videoUrls == IF evalOk THEN EvaluatedVideoUrls(page) ELSE <<>>
      imageUrls == IF evalOk THEN EvaluatedImageUrls(page) ELSE <<>>
      mediaUrls == IF ctype = "story"
                   THEN StorySelection(videoUrls, imageUrls, page.ogVideo, page.ogImage)
                   ELSE IF IsVideoType(ctype)
                   THEN BrowserVideoSelection(videoUrls, imageUrls, page.ogVideo)
                   ELSE IF Len(imageUrls) > 0 THEN imageUrls
                   ELSE IF page.ogImage # "" /\ ~IncludesBlob(page.ogImage) THEN <<page.ogImage>>
                   ELSE <<>>
      thumbnail == IF page.ogImage # "" THEN page.ogImage
                   ELSE IF Len(imageUrls) > 0 THEN imageUrls[1] ELSE ""
      username == IF ctype = "story"
                  THEN (IF StoryUser(url) # "" THEN StoryUser(url) ELSE "instagram_user")
                  ELSE UsernameFrom(page.titleUser, url)
  IN  IF Len(mediaUrls) = 0
      THEN Failure(IF ctype = "story"
                   THEN "No story media found; it may be private, expired or requires login."
                        \o " Try adding IG_SESSIONID environment variable for private stories."
                   ELSE IF IsVideoType(ctype)
                   THEN "No video content found - may be private or unavailable"
                   ELSE "No image content found - may be private or unavailable")
      ELSE IF ctype = "post" /\ thumbnail = ""
      THEN Failure("No thumbnail found for image post")
      ELSE Success(Meta(ctype, username,
                        IF page.ogDescription # "" THEN page.ogDescription ELSE "Instagram content",
                        thumbnail, mediaUrls, 0, 0,
                        IF IsVideoType(ctype) THEN <<0>> ELSE <<>>,
                        Len(mediaUrls)))

(***************************************************************************)
(* State.                                                                  *)
(***************************************************************************)
VARIABLES
  probe,       \* the last direct application of a pure method of the service
  overlap,     \* whether requests arrive while others are in progress
  universe,    \* the URLs that clients submit in this run
  revision,    \* which revision of services/instagram.ts is deployed
  igSession,   \* whether process.env.IG_SESSIONID is set
  now,         \* Date.now()
  task,        \* per request: kind, url, body type, position, HTTP status
  call,        \* per request: the state of its extractMetadata call
  downloads,   \* MemStorage.downloads
  cache,       \* InstagramService.cache
  browser,     \* InstagramService.browser (0: null)
  procs        \* the browser processes launched so far

vars == <<probe, overlap, universe, revision, igSession, now, task, call, downloads, cache, browser, procs>>

Revisions == {"part_004", "instagram_2", "instagram_1"}

\* The runs differ in the URLs their clients submit
Universes == {{UrlPost, UrlPostTracked}, {UrlReel, UrlOtherDomain},
              {UrlStory, UrlProfile}, {UrlTv}}
\* The URLs of the runs that compare the revisions
RevisionUniverses == {{UrlPost}, {UrlStory}, {UrlReel}}
\* The revisions that keep a cache, and the URLs of the runs that compare
\* their cache keys
CachingRevisions == {"part_004", "instagram_2"}
TrackedUniverses == {{UrlPost, UrlPostTracked}}
\* The URLs of the runs in which requests overlap
OverlappingUniverses == {{UrlReel}}
\* IG_SESSIONID is read for stories only
SessionSettings(u) == IF UrlStory \in u THEN BOOLEAN ELSE {FALSE}
ContentTypes == {"post", "reel", "story", "igtv"}

CacheKeys == {normalizeUrl(u) : u \in Urls} \cup {rawUrlKey(u) : u \in Urls}
NoEntry == [present |-> FALSE, data |-> NoMeta, timestamp |-> 0]
Entry(meta, ts) == [present |-> TRUE, data |-> meta, timestamp |-> ts]

NoProbe == [fn |-> "none", input |-> <<>>, output |-> <<>>]
NoTask == [kind |-> "none", url |-> <<>>, type |-> "post", pc |-> "idle", resp |-> 0]
NoCall == [key |-> <<>>, io |-> 0, fastFailed |-> FALSE, viaBrowser |-> FALSE,
           proc |-> 0, page |-> "none", closeError |-> FALSE, cookie |-> FALSE,
           outcome |-> "none", source |-> "none", result |-> NoMeta, msg |-> ""]
NoDownload == [id |-> 0, url |-> <<>>, type |-> "post", status |-> "none",
               metadata |-> <<>>, filePath |-> "", fileSize |-> <<>>,
               downloadedAt |-> <<>>, createdAt |-> <<>>]

PlaceholderThumb == "https://images.unsplash.com/photo-1611162617474-5b21e879e113?w=400&h=400&fit=crop"
PlaceholderMedia == "https://images.unsplash.com/photo-1611162617474-5b21e879e113?w=800&h=800&fit=crop"
\* One of the values Math.floor(Math.random() * 100000) can take
RandomLikes == {73421}

\* The metadata object the older revisions return from their catch block
FallbackMeta(ctype, likes) ==
  [type |-> ctype, username |-> "instagram_user", caption |-> "Instagram content",
   thumbnail |-> PlaceholderThumb, mediaUrls |-> <<PlaceholderMedia>>,
   likes |-> likes, comments |-> 0,
   views |-> IF IsVideoType(ctype) THEN <<likes>> ELSE <<>>,
   duration |-> IF IsVideoType(ctype) THEN <<"0:00">> ELSE <<>>,
   mediaCount |-> 1]

UsesCache(rev) == rev # "instagram_1"
HasFastPath(rev) == rev = "part_004"
CacheKeyOf(rev, url) == IF rev = "part_004" THEN normalizeUrl(url) ELSE rawUrlKey(url)

\* The age in milliseconds compared with the TTL taken as seconds
CacheFresh_TtlInSeconds(entry, t) ==
  entry.present /\ entry.timestamp # 0 /\ t - entry.timestamp < CACHE_TTL \div 1000

\* The comparison with <= in the place of <
CacheFresh_InclusiveBound(entry, t) ==
  entry.present /\ entry.timestamp # 0 /\ t - entry.timestamp <= CACHE_TTL

\* cached && cached.timestamp && Date.now() - cached.timestamp < this.CACHE_TTL
CacheFresh(entry, t) ==
  entry.present /\ entry.timestamp # 0 /\ t - entry.timestamp < CACHE_TTL

\* A catch block that answers every failure with the fallback metadata
CatchOutcome_AlwaysFallback(rev, url, msg, likes) ==
  [outcome |-> "ok", source |-> "fallback",
   result |-> FallbackMeta(detectContentType(url), likes), msg |-> msg]

\* The catch block of extractMetadata around the browser-driven path: the
\* outcome of the call when that path failed with message msg (msg is kept,
\* it is what the block logs)
CatchOutcome(rev, url, msg, likes) ==
  LET ctype == detectContentType(url)
  IN  IF rev = "part_004" \/ (rev = "instagram_2" /\ ctype = "story")
      THEN [outcome |-> "err", source |-> "browser", result |-> NoMeta, msg |-> msg]
      ELSE [outcome |-> "ok", source |-> "fallback",
            result |-> FallbackMeta(ctype, likes), msg |-> msg]

Init ==
  /\ probe = NoProbe
  /\ overlap = FALSE
  /\ universe \in Universes
  /\ revision = "part_004"
  /\ igSession \in SessionSettings(universe)
  /\ now = TickMs
  /\ task = [t \in Tasks |-> NoTask]
  /\ call = [t \in Tasks |-> NoCall]
  /\ downloads = [t \in Tasks |-> NoDownload]
  /\ cache = [k \in CacheKeys |-> NoEntry]
  /\ browser = 0
  /\ procs = [t \in Tasks |-> "none"]

InitRevisions ==
  /\ probe = NoProbe
  /\ overlap = FALSE
  /\ universe \in RevisionUniverses
  /\ revision \in Revisions
  /\ igSession \in SessionSettings(universe)
  /\ now = TickMs
  /\ task = [t \in Tasks |-> NoTask]
  /\ call = [t \in Tasks |-> NoCall]
  /\ downloads = [t \in Tasks |-> NoDownload]
  /\ cache = [k \in CacheKeys |-> NoEntry]
  /\ browser = 0
  /\ procs = [t \in Tasks |-> "none"]

InitTracked ==
  /\ probe = NoProbe
  /\ overlap = FALSE
  /\ universe \in TrackedUniverses
  /\ revision \in CachingRevisions
  /\ igSession \in SessionSettings(universe)
  /\ now = TickMs
  /\ task = [t \in Tasks |-> NoTask]
  /\ call = [t \in Tasks |-> NoCall]
  /\ downloads = [t \in Tasks |-> NoDownload]
  /\ cache = [k \in CacheKeys |-> NoEntry]
  /\ browser = 0
  /\ procs = [t \in Tasks |-> "none"]

InitOverlap ==
  /\ probe = NoProbe
  /\ overlap = TRUE
  /\ universe \in OverlappingUniverses
  /\ revision = "part_004"
  /\ igSession \in SessionSettings(universe)
  /\ now = TickMs
  /\ task = [t \in Tasks |-> NoTask]
  /\ call = [t \in Tasks |-> NoCall]
  /\ downloads = [t \in Tasks |-> NoDownload]
  /\ cache = [k \in CacheKeys |-> NoEntry]
  /\ browser = 0
  /\ procs = [t \in Tasks |-> "none"]

\* Requests take the task slots in order; they overlap in the runs with
\* overlap set and follow one another in the other runs
IsNextSlot(t) ==
  /\ task[t].kind = "none"
  /\ \A s \in 1..(t - 1) : task[s].kind # "none" /\ (overlap \/ task[s].pc = "done")

(***************************************************************************)
(* The clock.                                                              *)
(***************************************************************************)
Tick ==
  /\ now + TickMs <= TickMs * (MaxTicks + 1)
  /\ now' = now + TickMs
  /\ UNCHANGED <<probe, overlap, universe, revision, igSession, task, call, downloads, cache, browser, procs>>

(***************************************************************************)
(* MemStorage.                                                             *)
(***************************************************************************)
createDownload(id, url, type) ==
  [id |-> id, url |-> url, type |-> type, status |-> "pending",
   metadata |-> <<>>, filePath |-> "", fileSize |-> <<>>,
   downloadedAt |-> <<>>, createdAt |-> <<"Date">>]

\* updateDownload storing the updates in place of the record
updateDownload_ReplacesRecord(id, fields, values) ==
  IF downloads[id].status = "none" THEN downloads
  ELSE [downloads EXCEPT ![id] =
          [f \in DOMAIN downloads[id] |->
             IF f \in fields THEN values[f]
             ELSE IF f = "id" THEN downloads[id].id ELSE NoDownload[f]]]

\* updateDownload(id, updates): the map after the update
updateDownload(id, fields, values) ==
  IF downloads[id].status = "none" THEN downloads
  ELSE [downloads EXCEPT ![id] =
          [f \in DOMAIN downloads[id] |->
             IF f \in fields THEN values[f] ELSE downloads[id][f]]]

(***************************************************************************)
(* The routes.                                                             *)
(***************************************************************************)
\* The route with the record created before the URL is validated
PostProcess_CreatesBeforeValidating(t, url, type, bodyOk) ==
  /\ IsNextSlot(t)
  /\ IF ~bodyOk
     THEN /\ task' = [task EXCEPT ![t] = [kind |-> "process", url |-> <<>>, type |-> "post",
                                          pc |-> "done", resp |-> 400]]
          /\ UNCHANGED downloads
     ELSE /\ task' = [task EXCEPT ![t] =
                       [kind |-> "process", url |-> url, type |-> type,
                        pc |-> IF validateInstagramUrl(url) THEN "pd_start" ELSE "done",
                        resp |-> IF validateInstagramUrl(url) THEN 200 ELSE 400]]
          /\ downloads' = [downloads EXCEPT ![t] = createDownload(t, url, type)]
  /\ UNCHANGED <<probe, overlap, universe, revision, igSession, now, call, cache, browser, procs>>

\* POST /api/instagram/process
PostProcess(t, url, type, bodyOk) ==
  /\ IsNextSlot(t)
  /\ IF ~bodyOk \/ ~validateInstagramUrl(url)
     THEN /\ task' = [task EXCEPT ![t] = [kind |-> "process",
                                          url |-> IF bodyOk THEN url ELSE <<>>,
                                          type |-> IF bodyOk THEN type ELSE "post",
                                          pc |-> "done", resp |-> 400]]
          /\ UNCHANGED downloads
     ELSE /\ task' = [task EXCEPT ![t] = [kind |-> "process", url |-> url, type |-> type,
                                          pc |-> "pd_start", resp |-> 200]]
          /\ downloads' = [downloads EXCEPT ![t] = createDownload(t, url, type)]
  /\ UNCHANGED <<probe, overlap, universe, revision, igSession, now, call, cache, browser, procs>>

\* A direct call of the exported instagramService.extractMetadata(url)
CallExtractMetadata(t, url) ==
  /\ IsNextSlot(t)
  /\ task' = [task EXCEPT ![t] = [kind |-> "direct", url |-> url, type |-> "post",
                                  pc |-> "em_call", resp |-> 0]]
  /\ UNCHANGED <<probe, overlap, universe, revision, igSession, now, call, downloads, cache, browser, procs>>

\* processDownload without its first update
PDStart_SkipsProcessing(t) ==
  /\ task[t].pc = "pd_start"
  /\ task' = [task EXCEPT ![t].pc = "em_call"]
  /\ UNCHANGED <<probe, overlap, universe, revision, igSession, now, call, downloads, cache, browser, procs>>

\* processDownload: the first update, status processing
PDStart(t) ==
  /\ task[t].pc = "pd_start"
  /\ downloads' = updateDownload(t, {"status"}, [status |-> "processing"])
  /\ task' = [task EXCEPT ![t].pc = "em_call"]
  /\ UNCHANGED <<probe, overlap, universe, revision, igSession, now, call, cache, browser, procs>>

(***************************************************************************)
(* InstagramService.extractMetadata, one action per stretch of code        *)
(* between two awaits.                                                     *)
(***************************************************************************)
\* The call of task t ends now with a result that the method returns
Returns(c, source, meta) ==
  [c EXCEPT !.outcome = "ok", !.source = source, !.result = meta]

\* The call of task t ends now with an error that the method throws
Throws(c, source, msg) ==
  [c EXCEPT !.outcome = "err", !.source = source, !.msg = msg]

\* this.cache.set(cacheKey, { data, timestamp: Date.now() })
CacheSet(key, meta) == [cache EXCEPT ![key] = Entry(meta, now)]

\* extractMetadata trying the fast extractor for every content type
EMStart_FastPathForStories(t) ==
  /\ task[t].pc = "em_call"
  /\ LET url == task[t].url
         key == CacheKeyOf(revision, url)
         c0 == call[t]
     IN  IF ~validateInstagramUrl(url)
         THEN /\ call' = [call EXCEPT ![t] = Throws(c0, "invalid", "Invalid Instagram URL")]
              /\ task' = [task EXCEPT ![t].pc = "em_done"]
         ELSE LET c1 == IF UsesCache(revision)
                        THEN [c0 EXCEPT !.key = key]
                        ELSE c0
              IN  IF UsesCache(revision) /\ CacheFresh(cache[key], now)
                  THEN /\ call' = [call EXCEPT ![t] = Returns(c1, "cache", cache[key].data)]
                       /\ task' = [task EXCEPT ![t].pc = "em_done"]
                  ELSE IF HasFastPath(revision)
                  THEN IF HasShortcode(url)
                       THEN /\ call' = [call EXCEPT ![t] = c1]
                            /\ task' = [task EXCEPT ![t].pc = "fast_json"]
                       ELSE /\ call' = [call EXCEPT ![t] =
                                          [c1 EXCEPT !.fastFailed = TRUE]]
                            /\ task' = [task EXCEPT ![t].pc = "br_init"]
                  ELSE /\ call' = [call EXCEPT ![t] = c1]
                       /\ task' = [task EXCEPT ![t].pc = "br_init"]
  /\ UNCHANGED <<probe, overlap, universe, revision, igSession, now, downloads, cache, browser, procs>>

\* From the entry of extractMetadata to its first await: validation, cache
\* lookup and the choice of the strategy
EMStart(t) ==
  /\ task[t].pc = "em_call"
  /\ LET url == task[t].url
         key == CacheKeyOf(revision, url)
         c0 == call[t]
     IN  IF ~validateInstagramUrl(url)
         THEN /\ call' = [call EXCEPT ![t] = Throws(c0, "invalid", "Invalid Instagram URL")]
              /\ task' = [task EXCEPT ![t].pc = "em_done"]
         ELSE LET c1 == IF UsesCache(revision)
                        THEN [c0 EXCEPT !.key = key]
                        ELSE c0
              IN  IF UsesCache(revision) /\ CacheFresh(cache[key], now)
                  THEN /\ call' = [call EXCEPT ![t] = Returns(c1, "cache", cache[key].data)]
                       /\ task' = [task EXCEPT ![t].pc = "em_done"]
                  ELSE IF HasFastPath(revision) /\ detectContentType(url) # "story"
                  THEN IF HasShortcode(url)
                       THEN /\ call' = [call EXCEPT ![t] = c1]
                            /\ task' = [task EXCEPT ![t].pc = "fast_json"]
                       ELSE /\ call' = [call EXCEPT ![t] =
                                          [c1 EXCEPT !.fastFailed = TRUE]]
                            /\ task' = [task EXCEPT ![t].pc = "br_init"]
                  ELSE /\ call' = [call EXCEPT ![t] = c1]
                       /\ task' = [task EXCEPT ![t].pc = "br_init"]
  /\ UNCHANGED <<probe, overlap, universe, revision, igSession, now, downloads, cache, browser, procs>>

\* What extractMetadata does with the outcome r of extractMetadataFast:
\* cache and return it, or swallow the failure and go on to the browser
AfterFast_Rethrow(t, r) ==
  LET c == [call[t] EXCEPT !.io = @ + 1]
  IN  IF r.ok
      THEN /\ call' = [call EXCEPT ![t] = Returns(c, "fast", r.meta)]
           /\ cache' = CacheSet(c.key, r.meta)
           /\ task' = [task EXCEPT ![t].pc = "em_done"]
      ELSE /\ call' = [call EXCEPT ![t] =
                         Throws([c EXCEPT !.fastFailed = TRUE], "fast", r.msg)]
           /\ cache' = cache
           /\ task' = [task EXCEPT ![t].pc = "em_done"]

AfterFast_CacheFailure(t, r) ==
  LET c == [call[t] EXCEPT !.io = @ + 1]
  IN  IF r.ok
      THEN /\ call' = [call EXCEPT ![t] = Returns(c, "fast", r.meta)]
           /\ cache' = CacheSet(c.key, r.meta)
           /\ task' = [task EXCEPT ![t].pc = "em_done"]
      ELSE /\ call' = [call EXCEPT ![t] = [c EXCEPT !.fastFailed = TRUE]]
           /\ cache' = CacheSet(c.key, NoMeta)
           /\ task' = [task EXCEPT ![t].pc = "br_init"]

AfterFast(t, r) ==
  LET c == [call[t] EXCEPT !.io = @ + 1]
  IN  IF r.ok
      THEN /\ call' = [call EXCEPT ![t] = Returns(c, "fast", r.meta)]
           /\ cache' = CacheSet(c.key, r.meta)
           /\ task' = [task EXCEPT ![t].pc = "em_done"]
      ELSE /\ call' = [call EXCEPT ![t] = [c EXCEPT !.fastFailed = TRUE]]
           /\ cache' = cache
           /\ task' = [task EXCEPT ![t].pc = "br_init"]

\* extractMetadataFast: the GET of the JSON endpoint and the JSON stage
FastJson(t) ==
  /\ task[t].pc = "fast_json"
  /\ \E getOk \in BOOLEAN, item \in JsonReplies :
       LET r == FastJsonStage(task[t].url, item)
       IN  IF ~getOk \/ (~r.ok /\ r.msg = "fallthrough")
           THEN /\ call' = [call EXCEPT ![t].io = @ + 1]
                /\ task' = [task EXCEPT ![t].pc = "fast_html"]
                /\ cache' = cache
           ELSE AfterFast(t, r)
  /\ UNCHANGED <<probe, overlap, universe, revision, igSession, now, downloads, browser, procs>>

\* extractMetadataFast: the GET of the page and the HTML stage
FastHtml(t) ==
  /\ task[t].pc = "fast_html"
  /\ \E getOk \in BOOLEAN, page \in Pages :
       AfterFast(t, IF getOk THEN FastHtmlStage(task[t].url, page)
                    ELSE Failure("timeout of 10000ms exceeded"))
  /\ UNCHANGED <<probe, overlap, universe, revision, igSession, now, downloads, browser, procs>>

\* The browser-driven path failed with msg: the catch block, then on to finally
BrowserFailed(t, c, msg) ==
  \E likes \in RandomLikes :
    LET o == CatchOutcome(revision, task[t].url, msg, likes)
    IN  /\ call' = [call EXCEPT ![t] =
                      [c EXCEPT !.outcome = o.outcome, !.source = o.source,
                                !.result = o.result, !.msg = o.msg]]
        /\ task' = [task EXCEPT ![t].pc = "br_close"]

\* initBrowser up to its await: reuse the connected browser, or close the
\* old one and start a launch
BrInit(t) ==
  /\ task[t].pc = "br_init"
  /\ IF revision # "instagram_1" /\ browser # 0 /\ procs[browser] = "live"
     THEN /\ call' = [call EXCEPT ![t] = [@ EXCEPT !.viaBrowser = TRUE, !.proc = browser]]
          /\ task' = [task EXCEPT ![t].pc = "br_page"]
          /\ UNCHANGED <<browser, procs>>
     ELSE /\ call' = [call EXCEPT ![t].viaBrowser = TRUE]
          /\ task' = [task EXCEPT ![t].pc = "br_launch"]
          /\ procs' = IF browser # 0 THEN [procs EXCEPT ![browser] = "closed"] ELSE procs
          /\ browser' = IF revision = "instagram_1" THEN 0 ELSE browser
  /\ UNCHANGED <<probe, overlap, universe, revision, igSession, now, downloads, cache>>

\* initBrowser after puppeteer.launch settled
BrLaunched(t) ==
  /\ task[t].pc = "br_launch"
  /\ \E ok \in BOOLEAN :
       IF ok
       THEN /\ procs' = [procs EXCEPT ![t] = "live"]
            /\ browser' = t
            /\ call' = [call EXCEPT ![t] = [@ EXCEPT !.io = @ + 1, !.proc = t]]
            /\ task' = [task EXCEPT ![t].pc = "br_page"]
       ELSE /\ BrowserFailed(t, [call[t] EXCEPT !.io = @ + 1], "Failed to launch the browser process")
            /\ UNCHANGED <<browser, procs>>
  /\ UNCHANGED <<probe, overlap, universe, revision, igSession, now, downloads, cache>>

\* browser.newPage()
BrNewPage(t) ==
  /\ task[t].pc = "br_page"
  /\ IF procs[call[t].proc] = "live"
     THEN /\ call' = [call EXCEPT ![t] = [@ EXCEPT !.io = @ + 1, !.page = "open"]]
          /\ task' = [task EXCEPT ![t].pc = "br_goto"]
     ELSE BrowserFailed(t, [call[t] EXCEPT !.io = @ + 1], "Protocol error: Target closed")
  /\ UNCHANGED <<probe, overlap, universe, revision, igSession, now, downloads, cache, browser, procs>>

\* setCookie called for every story, whether or not IG_SESSIONID is set
BrGoto_CookieWithoutSession(t) ==
  /\ task[t].pc = "br_goto"
  /\ LET c == [call[t] EXCEPT !.cookie = (detectContentType(task[t].url) = "story")]
     IN  \E ok \in BOOLEAN :
           IF ok /\ procs[c.proc] = "live"
           THEN /\ call' = [call EXCEPT ![t] = c]
                /\ task' = [task EXCEPT ![t].pc = "br_eval"]
           ELSE BrowserFailed(t, c, "Navigation timeout of 6000 ms exceeded")
  /\ UNCHANGED <<probe, overlap, universe, revision, igSession, now, downloads, cache, browser, procs>>

\* The session cookie of a story, then page.goto
BrGoto(t) ==
  /\ task[t].pc = "br_goto"
  /\ LET c == [call[t] EXCEPT !.cookie = (detectContentType(task[t].url) = "story" /\ igSession)]
     IN  \E ok \in BOOLEAN :
           IF ok /\ procs[c.proc] = "live"
           THEN /\ call' = [call EXCEPT ![t] = c]
                /\ task' = [task EXCEPT ![t].pc = "br_eval"]
           ELSE BrowserFailed(t, c, "Navigation timeout of 6000 ms exceeded")
  /\ UNCHANGED <<probe, overlap, universe, revision, igSession, now, downloads, cache, browser, procs>>

\* Two of the values the older revisions draw for mediaCount
RandomCounts == {1, 4}

\* The metadata object of the deployed revision for the extraction meta: the
\* older revisions take og:image or the placeholder as thumbnail and draw
\* likes and mediaCount
RevisionMeta(rev, meta, ogImage, likes, count) ==
  IF rev = "part_004" THEN meta
  ELSE [meta EXCEPT !.thumbnail = IF ogImage # "" THEN ogImage ELSE PlaceholderThumb,
                    !.likes = likes, !.mediaCount = count]

\* The rendered page is read, the media are selected, the result is cached
BrEval(t) ==
  /\ task[t].pc = "br_eval"
  /\ \E page \in Pages, evalOk \in BOOLEAN :
       LET r == BrowserStage(task[t].url, page, evalOk)
       IN  IF r.ok
           THEN \E likes \in RandomLikes, count \in RandomCounts :
                  LET meta == RevisionMeta(revision, r.meta, page.ogImage, likes, count)
                  IN  /\ call' = [call EXCEPT ![t] = Returns(@, "browser", meta)]
                      /\ cache' = IF UsesCache(revision) THEN CacheSet(call[t].key, meta) ELSE cache
                      /\ task' = [task EXCEPT ![t].pc = "br_close"]
           ELSE /\ BrowserFailed(t, call[t], r.msg)
                /\ cache' = cache
  /\ UNCHANGED <<probe, overlap, universe, revision, igSession, now, downloads, browser, procs>>

\* The page closed at the end of the try block, not in a finally block
BrClose_OnlyAfterSuccess(t) ==
  /\ task[t].pc = "br_close"
  /\ \E closeOk \in BOOLEAN :
       /\ call' = [call EXCEPT ![t] =
                     [@ EXCEPT !.page = IF @ = "open" /\ closeOk /\ call[t].outcome = "ok"
                                        THEN "closed" ELSE @,
                               !.closeError = (call[t].page = "open" /\ call[t].outcome = "ok"
                                               /\ ~closeOk)]]
       /\ IF revision = "instagram_1" /\ (closeOk \/ call[t].page # "open") /\ call[t].proc # 0
          THEN /\ procs' = [procs EXCEPT ![call[t].proc] = "closed"]
               /\ browser' = 0
          ELSE UNCHANGED <<browser, procs>>
  /\ task' = [task EXCEPT ![t].pc = "em_done"]
  /\ UNCHANGED <<probe, overlap, universe, revision, igSession, now, downloads, cache>>

\* The finally block letting the rejection of page.close escape
BrClose_CloseErrorEscalates(t) ==
  /\ task[t].pc = "br_close"
  /\ \E closeOk \in BOOLEAN :
       /\ call' = [call EXCEPT ![t] =
                     [@ EXCEPT !.page = IF @ = "open" /\ closeOk THEN "closed" ELSE @,
                               !.closeError = (call[t].page = "open" /\ ~closeOk),
                               !.outcome = IF call[t].page = "open" /\ ~closeOk
                                           THEN "err" ELSE @,
                               !.msg = IF call[t].page = "open" /\ ~closeOk
                                       THEN "Protocol error: Target closed" ELSE @]]
       /\ IF revision = "instagram_1" /\ (closeOk \/ call[t].page # "open") /\ call[t].proc # 0
          THEN /\ procs' = [procs EXCEPT ![call[t].proc] = "closed"]
               /\ browser' = 0
          ELSE UNCHANGED <<browser, procs>>
  /\ task' = [task EXCEPT ![t].pc = "em_done"]
  /\ UNCHANGED <<probe, overlap, universe, revision, igSession, now, downloads, cache>>

\* The finally block: the page is closed (a failure of close is logged), and
\* the oldest revision closes the browser too
BrClose(t) ==
  /\ task[t].pc = "br_close"
  /\ \E closeOk \in BOOLEAN :
       /\ call' = [call EXCEPT ![t] =
                     [@ EXCEPT !.page = IF @ = "open" /\ closeOk THEN "closed" ELSE @,
                               !.closeError = (call[t].page = "open" /\ ~closeOk)]]
       /\ IF revision = "instagram_1" /\ (closeOk \/ call[t].page # "open") /\ call[t].proc # 0
          THEN /\ procs' = [procs EXCEPT ![call[t].proc] = "closed"]
               /\ browser' = 0
          ELSE UNCHANGED <<browser, procs>>
  /\ task' = [task EXCEPT ![t].pc = "em_done"]
  /\ UNCHANGED <<probe, overlap, universe, revision, igSession, now, downloads, cache>>

\* The browser process crashes or is killed
BrowserDisconnect ==
  /\ \E b \in Tasks : procs[b] = "live" /\ procs' = [procs EXCEPT ![b] = "dead"]
  /\ UNCHANGED <<probe, overlap, universe, revision, igSession, now, task, call, downloads, cache, browser>>

(***************************************************************************)
(* processDownload after extractMetadata settled.                          *)
(***************************************************************************)
processDownload_FailedKeepsPlaceholder(t) ==
  /\ task[t].kind = "process"
  /\ task[t].pc = "em_done"
  /\ IF call[t].outcome = "ok"
     THEN /\ downloads' = updateDownload(t, {"metadata", "status"},
                             [metadata |-> <<call[t].result>>, status |-> "processing"])
          /\ task' = [task EXCEPT ![t].pc = "pd_download"]
     ELSE /\ downloads' = updateDownload(t, {"metadata", "status"},
                             [metadata |-> <<FallbackMeta(detectContentType(task[t].url), 0)>>,
                              status |-> "failed"])
          /\ task' = [task EXCEPT ![t].pc = "done"]
  /\ call' = [call EXCEPT ![t] = NoCall]
  /\ UNCHANGED <<probe, overlap, universe, revision, igSession, now, cache, browser, procs>>

\* processDownload from the settling of extractMetadata to the next await
PDAfterExtract(t) ==
  /\ task[t].kind = "process"
  /\ task[t].pc = "em_done"
  /\ IF call[t].outcome = "ok"
     THEN IF Len(call[t].result.mediaUrls) > 0
          THEN /\ downloads' = updateDownload(t, {"metadata", "status"},
                                  [metadata |-> <<call[t].result>>, status |-> "processing"])
               /\ task' = [task EXCEPT ![t].pc = "pd_download"]
          ELSE /\ downloads' = updateDownload(t, {"metadata", "status"},
                                  [metadata |-> <<call[t].result>>, status |-> "failed"])
               /\ task' = [task EXCEPT ![t].pc = "done"]
     ELSE /\ downloads' = updateDownload(t, {"status"}, [status |-> "failed"])
          /\ task' = [task EXCEPT ![t].pc = "done"]
  /\ call' = [call EXCEPT ![t] = NoCall]
  /\ UNCHANGED <<probe, overlap, universe, revision, igSession, now, cache, browser, procs>>

\* The direct caller receives the result or the error of extractMetadata
DirectReturn(t) ==
  /\ task[t].kind = "direct"
  /\ task[t].pc = "em_done"
  /\ task' = [task EXCEPT ![t].pc = "done"]
  /\ call' = [call EXCEPT ![t] = NoCall]
  /\ UNCHANGED <<probe, overlap, universe, revision, igSession, now, downloads, cache, browser, procs>>

\* A catch block that resets the record of a job whose download failed
PDDownload_FailureClearsMetadata(t) ==
  /\ task[t].pc = "pd_download"
  /\ \E ok \in BOOLEAN :
       IF ok
       THEN downloads' = updateDownload(t, {"status", "filePath", "fileSize", "downloadedAt"},
                            [status |-> "completed", filePath |-> "downloads/file",
                             fileSize |-> <<1024>>, downloadedAt |-> <<"Date">>])
       ELSE downloads' = updateDownload(t, {"status", "metadata"},
                            [status |-> "failed", metadata |-> <<>>])
  /\ task' = [task EXCEPT ![t].pc = "done"]
  /\ UNCHANGED <<probe, overlap, universe, revision, igSession, now, call, cache, browser, procs>>

\* The job marked completed without the file fields
PDDownload_CompletedBeforeFile(t) ==
  /\ task[t].pc = "pd_download"
  /\ \E ok \in BOOLEAN :
       IF ok
       THEN downloads' = updateDownload(t, {"status"}, [status |-> "completed"])
       ELSE downloads' = updateDownload(t, {"status"}, [status |-> "failed"])
  /\ task' = [task EXCEPT ![t].pc = "done"]
  /\ UNCHANGED <<probe, overlap, universe, revision, igSession, now, call, cache, browser, procs>>

\* processDownload after downloadMedia settled
PDDownload(t) ==
  /\ task[t].pc = "pd_download"
  /\ \E ok \in BOOLEAN :
       IF ok
       THEN downloads' = updateDownload(t, {"status", "filePath", "fileSize", "downloadedAt"},
                            [status |-> "completed", filePath |-> "downloads/file",
                             fileSize |-> <<1024>>, downloadedAt |-> <<"Date">>])
       ELSE downloads' = updateDownload(t, {"status"}, [status |-> "failed"])
  /\ task' = [task EXCEPT ![t].pc = "done"]
  /\ UNCHANGED <<probe, overlap, universe, revision, igSession, now, call, cache, browser, procs>>

Next ==
  \/ Tick
  \/ BrowserDisconnect
  \/ \E t \in Tasks, url \in universe, bodyOk \in BOOLEAN :
       \E type \in {detectContentType(url), "post"} : PostProcess(t, url, type, bodyOk)
  \/ \E t \in Tasks, url \in universe : CallExtractMetadata(t, url)
  \/ \E t \in Tasks : PDStart(t)
  \/ \E t \in Tasks : EMStart(t)
  \/ \E t \in Tasks : FastJson(t)
  \/ \E t \in Tasks : FastHtml(t)
  \/ \E t \in Tasks : BrInit(t)
  \/ \E t \in Tasks : BrLaunched(t)
  \/ \E t \in Tasks : BrNewPage(t)
  \/ \E t \in Tasks : BrGoto(t)
  \/ \E t \in Tasks : BrEval(t)
  \/ \E t \in Tasks : BrClose(t)
  \/ \E t \in Tasks : PDAfterExtract(t)
  \/ \E t \in Tasks : PDDownload(t)
  \/ \E t \in Tasks : DirectReturn(t)

Spec == Init /\ [][Next]_vars

SpecRevisions == InitRevisions /\ [][Next]_vars

SpecOverlap == InitOverlap /\ [][Next]_vars

SpecTracked == InitTracked /\ [][Next]_vars

(***************************************************************************)
(* The pure methods of the service applied directly to bounded inputs.     *)
(***************************************************************************)
TestSchemes == {<<"https:", "/", "/">>, <<"http:", "/", "/">>, <<"ftp:", "/", "/">>, <<>>}
TestHosts == {<<"instagram.com">>, <<"www.", "instagram.com">>, <<"evil.com">>, <<"instagram.com.evil.com">>}
TestSegments == {"p", "reel", "tv", "stories", "reels", "someuser"}
TestIds == {"ABC123", "T-1", "AB$12", "$$$"}
TestUsers == {"some.user", "$$$", "reel"}
TestPaths ==
  {<<>>, <<"/">>}
    \cup {<<"/", s>> : s \in TestSegments}
    \cup {<<"/", s, "/">> : s \in TestSegments}
    \cup {<<"/", s, "/", i>> : s \in TestSegments, i \in TestIds}
    \cup {<<"/", "stories", "/", u, "/", i>> : u \in TestUsers, i \in TestIds}
TestEndings == {<<>>, <<"/">>, <<"?", "utm_source=ig">>, <<"/", "reel", "/", "XYZ">>,
                <<"/", "..", "/", "tv", "/">>}
TestUrls ==
  {s \o h \o p \o e : s \in TestSchemes, h \in TestHosts, p \in TestPaths, e \in TestEndings}
    \cup {<<"hello world">>, <<>>}

MaxIndex == 2
MaxMediaCount == 3
TestMetas ==
  {Meta(ctype, "someuser", "", "", <<ImgFull>>, 0, 0, <<>>, count) :
     ctype \in ContentTypes, count \in 0..MaxMediaCount}

\* The name with its suffix decided by the index alone
generateFilename_SuffixByIndex(metadata, index, time) ==
  [username |-> metadata.username, type |-> metadata.type, time |-> time,
   suffix |-> IF index > 0 THEN <<index + 1>> ELSE <<>>,
   extension |-> IF metadata.type = "reel" \/ metadata.type = "igtv" THEN "mp4" ELSE "jpg"]

\* `${username}_${type}_${Date.now()}${suffix}.${extension}`, the parts in
\* order; suffix is <<n>> for the text _n and <<>> for the empty text
generateFilename(metadata, index, time) ==
  [username |-> metadata.username, type |-> metadata.type, time |-> time,
   suffix |-> IF metadata.mediaCount # 0 /\ metadata.mediaCount > 1 THEN <<index + 1>> ELSE <<>>,
   extension |-> IF metadata.type = "reel" \/ metadata.type = "igtv" THEN "mp4" ELSE "jpg"]

\* The arguments of one direct call
TestPages == Pages \cup {PageNetworkOnly}

TestInputs ==
  {[url |-> u] : u \in TestUrls}
    \cup {[url |-> u, page |-> pg, evalOk |-> b] : u \in ValidUrls, pg \in TestPages, b \in BOOLEAN}
    \cup {[metadata |-> m, index |-> i] : m \in TestMetas, i \in 0..MaxIndex}

InitPure ==
  /\ probe \in {[fn |-> "none", input |-> i, output |-> <<>>] : i \in TestInputs}
  /\ overlap = FALSE
  /\ universe = {}
  /\ revision = "part_004"
  /\ igSession = FALSE
  /\ now = TickMs
  /\ task = [t \in Tasks |-> NoTask]
  /\ call = [t \in Tasks |-> NoCall]
  /\ downloads = [t \in Tasks |-> NoDownload]
  /\ cache = [k \in CacheKeys |-> NoEntry]
  /\ browser = 0
  /\ procs = [t \in Tasks |-> "none"]

Applied(fn, output) ==
  /\ probe' = [probe EXCEPT !.fn = fn, !.output = output]
  /\ UNCHANGED <<overlap, universe, revision, igSession, now, task, call, downloads, cache, browser, procs>>

CallValidateInstagramUrl ==
  /\ DOMAIN probe.input = {"url"}
  /\ Applied("validateInstagramUrl", validateInstagramUrl(probe.input.url))

CallDetectContentType ==
  /\ DOMAIN probe.input = {"url"}
  /\ Applied("detectContentType", detectContentType(probe.input.url))

CallGenerateFilename ==
  /\ DOMAIN probe.input = {"metadata", "index"}
  /\ Applied("generateFilename", generateFilename(probe.input.metadata, probe.input.index, now))

\* The browser-driven extraction applied to a rendered page
CallBrowserStage ==
  /\ DOMAIN probe.input = {"url", "page", "evalOk"}
  /\ Applied("BrowserStage", BrowserStage(probe.input.url, probe.input.page, probe.input.evalOk))

NextPure ==
  \/ Tick
  \/ CallBrowserStage
  \/ CallValidateInstagramUrl
  \/ CallDetectContentType
  \/ CallGenerateFilename

SpecPure == InitPure /\ [][NextPure]_vars


\* The steps of request t that follow an operation that settles: a
\* synchronous stretch, a storage update, an HTTP GET with a timeout, a
\* browser operation with a timeout
SettlingStep(t) ==
  \/ PDStart(t) \/ EMStart(t) \/ FastJson(t) \/ FastHtml(t)
  \/ BrInit(t) \/ BrLaunched(t) \/ BrNewPage(t) \/ BrGoto(t) \/ BrEval(t) \/ BrClose(t)
  \/ PDAfterExtract(t) \/ DirectReturn(t)

\* Every continuation whose awaited operation settles is run.  PDDownload
\* is not among them: the GET of downloadMedia has no timeout and its
\* stream no deadline, so nothing makes downloadMedia settle.
Fairness == \A t \in Tasks : WF_vars(SettlingStep(t))

SpecLive == Init /\ [][Next]_vars /\ Fairness

(***************************************************************************)
(* The claims.                                                             *)
(***************************************************************************)
StatusSteps == {<<"none", "pending">>, <<"pending", "processing">>,
                <<"processing", "completed">>, <<"processing", "failed">>}

\* C1: the status of a job starts as pending and changes only along
\* pending -> processing -> completed or processing -> failed; a completed
\* or failed job keeps its status and no job goes from pending to completed.
C1_StatusMachine ==
  [][\A t \in Tasks :
       downloads'[t].status # downloads[t].status
         => <<downloads[t].status, downloads'[t].status>> \in StatusSteps]_vars

\* A run in which one job was completed and another one failed
C1_Witness ==
  \E s, t \in Tasks :
    /\ task[s].pc = "done" /\ downloads[s].status = "completed"
    /\ task[t].pc = "done" /\ downloads[t].status = "failed"

\* C2: for a URL that validateInstagramUrl rejects, POST /api/instagram/process
\* answers 400 and creates no job, and extractMetadata throws
\* 'Invalid Instagram URL' before any network or browser operation.
C2_InvalidUrlRejected ==
  \A t \in Tasks :
    (task[t].kind # "none" /\ task[t].url # <<>> /\ ~validateInstagramUrl(task[t].url))
      => /\ downloads[t] = NoDownload
         /\ task[t].kind = "process" => task[t].pc = "done" /\ task[t].resp = 400
         /\ task[t].kind = "direct" =>
              /\ task[t].pc \in {"em_call", "em_done", "done"}
              /\ task[t].pc = "em_done" =>
                    call[t] = Throws(NoCall, "invalid", "Invalid Instagram URL")
              /\ task[t].pc # "em_done" => call[t] = NoCall

\* The POST of an invalid URL was answered and a direct call with an invalid
\* URL has thrown
C2_Witness ==
  \E s, t \in Tasks :
    /\ task[s].kind = "process" /\ task[s].url # <<>>
    /\ ~validateInstagramUrl(task[s].url) /\ task[s].resp = 400
    /\ task[t].kind = "direct" /\ ~validateInstagramUrl(task[t].url)
    /\ task[t].pc = "em_done" /\ call[t].outcome = "err" /\ call[t].io = 0

\* The positions of extractMetadata between its first await and its result
ExtractingPcs == {"fast_json", "fast_html", "br_init", "br_launch", "br_page",
                  "br_goto", "br_eval"}

\* The entry was stored less than CACHE_TTL ago
WithinTtl(entry) == entry.present /\ now - entry.timestamp < CACHE_TTL

\* C3: when extractMetadata is called again for a normalized URL whose result
\* was stored less than CACHE_TTL ago, no extraction runs: no call is on the
\* fast or the browser path while such an entry exists for its key, and the
\* call returns the stored result having issued no HTTP request, launched no
\* browser and opened no page.
C3_CacheHitWithinTtl ==
  \A t \in Tasks :
    /\ task[t].pc \in ExtractingPcs => ~WithinTtl(cache[call[t].key])
    /\ (task[t].pc = "em_done" /\ call[t].source = "cache")
         => /\ call[t].outcome = "ok"
            /\ call[t].result = cache[call[t].key].data
            /\ call[t].io = 0 /\ ~call[t].viaBrowser
            /\ call[t].proc = 0 /\ call[t].page = "none"

\* A second call, made at a later time within the TTL and with tracking
\* parameters added, has returned the result that the first call stored
C3_Witness ==
  \E s, t \in Tasks :
    /\ s # t /\ task[s].pc = "done" /\ task[s].url # task[t].url
    /\ normalizeUrl(task[s].url) = normalizeUrl(task[t].url)
    /\ task[t].pc = "em_done" /\ call[t].source = "cache" /\ call[t].io = 0
    /\ cache[call[t].key].timestamp < now
    /\ WithinTtl(cache[call[t].key])

\* C4: a call that finds an entry stored CACHE_TTL or more ago does not return
\* it but starts an extraction, and an extraction that succeeds stores its
\* result under the key with the time of the store.
C4_ExpiredEntryReplaced ==
  [][\A t \in Tasks :
       /\ ( /\ task[t].pc = "em_call" /\ task'[t].pc # "em_call"
            /\ validateInstagramUrl(task[t].url)
            /\ cache[normalizeUrl(task[t].url)].present
            /\ now - cache[normalizeUrl(task[t].url)].timestamp >= CACHE_TTL )
          => /\ task'[t].pc \in ExtractingPcs
             /\ call'[t].outcome = "none" /\ call'[t].source # "cache"
       /\ ( /\ call[t].outcome = "none" /\ call'[t].outcome = "ok"
            /\ call'[t].source \in {"fast", "browser"} )
          => cache'[normalizeUrl(task[t].url)] = Entry(call'[t].result, now)]_vars

\* After a first job had its metadata, a later call for the same normalized
\* URL has extracted again and its result is the entry, stored at least
\* CACHE_TTL after the start of the run
C4_Witness ==
  \E s, t \in Tasks :
    /\ s # t /\ task[s].pc = "done" /\ downloads[s].metadata # <<>>
    /\ normalizeUrl(task[s].url) = normalizeUrl(task[t].url)
    /\ task[t].pc = "em_done" /\ call[t].outcome = "ok"
    /\ call[t].source \in {"fast", "browser"}
    /\ cache[call[t].key] = Entry(call[t].result, now)
    /\ now - TickMs >= CACHE_TTL

\* C5: the cache changes only in a step in which a call gets a successful
\* result, and then only the entry of that call's key, which becomes that
\* result; a step in which a call fails with an error leaves the cache as it
\* was.
C5_OnlySuccessCached ==
  [][/\ \A k \in CacheKeys :
          cache'[k] # cache[k]
            => \E t \in Tasks :
                 /\ call[t].outcome = "none" /\ call'[t].outcome = "ok"
                 /\ call'[t].key = k /\ k = normalizeUrl(task[t].url)
                 /\ cache'[k] = Entry(call'[t].result, now)
     /\ (\E t \in Tasks : call[t].outcome = "none" /\ call'[t].outcome = "err")
          => cache' = cache
     /\ (\E t \in Tasks : call[t].fastFailed # call'[t].fastFailed)
          => cache' = cache]_vars

\* A call found the entry of its key expired and has thrown after the failure
\* of both paths; the expired entry is still the entry of the key
C5_Witness ==
  \E t \in Tasks :
    /\ task[t].pc = "em_done" /\ call[t].outcome = "err"
    /\ call[t].source = "browser" /\ call[t].fastFailed
    /\ cache[call[t].key].present /\ ~WithinTtl(cache[call[t].key])
    /\ Len(cache[call[t].key].data.mediaUrls) > 0

\* C6: once extractMetadataFast has failed for a call, the call is on the
\* browser-driven path, and its outcome is the result or the failure of that
\* path, never the failure of the fast path.
C6_FastFailureFallsThrough ==
  \A t \in Tasks :
    call[t].fastFailed
      => /\ detectContentType(task[t].url) # "story"
         /\ task[t].pc \in {"br_init", "br_launch", "br_page", "br_goto", "br_eval",
                             "br_close", "em_done"}
         /\ call[t].outcome = "none" <=> task[t].pc \notin {"br_close", "em_done"}
         /\ call[t].outcome # "none" => call[t].source = "browser" /\ call[t].viaBrowser

\* A call whose fast path issued a request and failed has returned the result
\* of the browser-driven path
C6_Witness ==
  \E t \in Tasks :
    /\ call[t].fastFailed /\ task[t].pc = "em_done" /\ call[t].io > 1
    /\ call[t].outcome = "ok" /\ call[t].source = "browser"

\* C7: a result of the fast path or of the browser-driven path for a reel or
\* igtv URL has at least one media URL and only video resources as media URLs.
C7_VideoOnlyForReels ==
  \A t \in Tasks :
    ( /\ call[t].outcome = "ok" /\ call[t].source \in {"fast", "browser"}
      /\ IsVideoType(detectContentType(task[t].url)) )
      => /\ Len(call[t].result.mediaUrls) > 0
         /\ \A i \in 1..Len(call[t].result.mediaUrls) :
              call[t].result.mediaUrls[i] \in VideoResources

\* A reel job failed without metadata, and a later call for the reel has
\* returned a video from the browser-driven path
C7_Witness ==
  \E s, t \in Tasks :
    /\ downloads[s].type = "reel" /\ downloads[s].status = "failed"
    /\ downloads[s].metadata = <<>>
    /\ detectContentType(task[t].url) = "reel" /\ task[t].pc = "em_done"
    /\ call[t].outcome = "ok" /\ call[t].source = "browser"
    /\ call[t].result.mediaUrls[1] \in VideoResources

C9_NoSubstituteMetadata ==
  \A t \in Tasks :
    (task[t].kind # "none" /\ validateInstagramUrl(task[t].url)
       /\ detectContentType(task[t].url) # "story" /\ call[t].msg # "")
      => call[t].outcome = "err" /\ call[t].result = NoMeta

\* C10: when extractMetadata has thrown, the step of processDownload that
\* follows ends the job as failed with metadata, filePath, fileSize and
\* downloadedAt still null.
C10_FailedExtractionWritesNoMetadata ==
  [][\A t \in Tasks :
       ( /\ task[t].kind = "process" /\ task[t].pc = "em_done"
         /\ call[t].outcome = "err" /\ task'[t].pc # "em_done" )
         => /\ task'[t].pc = "done"
            /\ downloads'[t].status = "failed"
            /\ downloads'[t].metadata = <<>> /\ downloads'[t].filePath = ""
            /\ downloads'[t].fileSize = <<>> /\ downloads'[t].downloadedAt = <<>>
            /\ downloads'[t].url = task[t].url]_vars

\* A job whose extraction threw has ended as failed, without metadata
C10_Witness ==
  \E t \in Tasks :
    /\ task[t].kind = "process" /\ task[t].pc = "done" /\ task[t].resp = 200
    /\ downloads[t].status = "failed" /\ downloads[t].metadata = <<>>

\* C11: when downloadMedia has failed after a successful extraction, the job
\* ends as failed, keeps the metadata written before the download, and its
\* filePath, fileSize and downloadedAt are still null.
C11_DownloadFailureKeepsMetadata ==
  [][\A t \in Tasks :
       ( /\ task[t].pc = "pd_download" /\ task'[t].pc # "pd_download"
         /\ downloads'[t].status # "completed" )
         => /\ task'[t].pc = "done"
            /\ downloads'[t].status = "failed"
            /\ downloads[t].metadata # <<>>
            /\ downloads'[t].metadata = downloads[t].metadata
            /\ downloads'[t].filePath = "" /\ downloads'[t].fileSize = <<>>
            /\ downloads'[t].downloadedAt = <<>>]_vars

\* A job with metadata and media URLs has ended as failed, without a file
C11_Witness ==
  \E t \in Tasks :
    /\ task[t].pc = "done" /\ downloads[t].status = "failed"
    /\ downloads[t].metadata # <<>>
    /\ Len(downloads[t].metadata[1].mediaUrls) > 0
    /\ downloads[t].filePath = ""

\* C12: every job that processDownload has set to processing reaches the
\* status completed or failed.
C12_EveryJobEnds ==
  \A t \in Tasks :
    (downloads[t].status = "processing")
      ~> (downloads[t].status \in {"completed", "failed"})

\* C13: every result that a call of extractMetadata has, from the fast path,
\* the browser-driven path or the cache, has mediaCount equal to the
\* number of its media URLs.
C13_MediaCountIsLength ==
  \A t \in Tasks :
    call[t].outcome = "ok"
      => call[t].result.mediaCount = Len(call[t].result.mediaUrls)

\* C14: every result of extractMetadata has at least one media URL, and so
\* has the metadata of every job: processDownload never ends a job in its
\* branch for a result without media URLs.
C14_MediaUrlsNonEmpty ==
  \A t \in Tasks :
    /\ call[t].outcome = "ok" => Len(call[t].result.mediaUrls) > 0
    /\ downloads[t].metadata # <<>> => Len(downloads[t].metadata[1].mediaUrls) > 0
    /\ (downloads[t].status = "failed" /\ downloads[t].metadata # <<>>)
         => task[t].pc = "done"

\* After a job of the same URL failed without metadata, processDownload is
\* downloading the first media URL of a result
C14_Witness ==
  \E s, t \in Tasks :
    /\ downloads[s].status = "failed" /\ downloads[s].metadata = <<>>
    /\ task[t].pc = "pd_download" /\ downloads[t].status = "processing"
    /\ Len(downloads[t].metadata[1].mediaUrls) > 0

(***************************************************************************)
(* The URL shapes in the words of the validator's contract.                *)
(***************************************************************************)
ShapeHeads ==
  {s \o h \o <<"/">> : s \in {<<"https:", "/", "/">>, <<"http:", "/", "/">>},
                       h \in {<<"instagram.com">>, <<"www.", "instagram.com">>}}

BeginsWith(url, pre) == Len(url) >= Len(pre) /\ SubSeq(url, 1, Len(pre)) = pre

\* What follows an id in a URL of one of the shapes: nothing, a closing
\* slash, a query
NoFurtherPath(rest) ==
  \/ rest = <<>>
  \/ rest = <<"/">>
  \/ (Len(rest) >= 1 /\ rest[1] = "?")
  \/ (Len(rest) >= 2 /\ rest[1] = "/" /\ rest[2] = "?")

\* The URL is p/<id>, reel/<id>, tv/<id> or stories/<user>/<id> on the
\* Instagram host, the id made of word characters and dashes
IsOfShape(url) ==
  \E head \in ShapeHeads :
    /\ BeginsWith(url, head)
    /\ LET rest == SubSeq(url, Len(head) + 1, Len(url))
       IN  \/ /\ Len(rest) >= 3
              /\ rest[1] \in {"p", "reel", "tv"} /\ rest[2] = "/"
              /\ rest[3] \in WordDashTokens
              /\ NoFurtherPath(SubSeq(rest, 4, Len(rest)))
           \/ /\ Len(rest) >= 5
              /\ rest[1] = "stories" /\ rest[2] = "/"
              /\ rest[3] \in WordDotDashTokens /\ rest[4] = "/"
              /\ rest[5] \in WordDashTokens
              /\ NoFurtherPath(SubSeq(rest, 6, Len(rest)))

\* C15: validateInstagramUrl returns true for every URL of the four shapes
\* and false for every other string
C15_OnlyTheFourShapes ==
  probe.fn = "validateInstagramUrl" => (probe.output <=> IsOfShape(probe.input.url))

\* C16: detectContentType returns reel if the URL contains /reel/, otherwise
\* story if it contains /stories/, otherwise igtv if it contains /tv/,
\* otherwise post, for every input
C16_ClassifierPriority ==
  probe.fn = "detectContentType" =>
    /\ probe.output \in ContentTypes
    /\ IncludesSegment(probe.input.url, "reel") => probe.output = "reel"
    /\ (~IncludesSegment(probe.input.url, "reel") /\ IncludesSegment(probe.input.url, "stories"))
         => probe.output = "story"
    /\ (~IncludesSegment(probe.input.url, "reel") /\ ~IncludesSegment(probe.input.url, "stories")
          /\ IncludesSegment(probe.input.url, "tv")) => probe.output = "igtv"
    /\ (~IncludesSegment(probe.input.url, "reel") /\ ~IncludesSegment(probe.input.url, "stories")
          /\ ~IncludesSegment(probe.input.url, "tv")) => probe.output = "post"

C16_Witness ==
  /\ probe.fn = "detectContentType"
  /\ IncludesSegment(probe.input.url, "stories")
  /\ IncludesSegment(probe.input.url, "reel")
  /\ probe.output = "reel"

\* C17: generateFilename returns username, type, the time in milliseconds, an
\* optional _{index+1} and the extension; the extension is mp4 exactly for
\* reel and igtv, and the _{index+1} part is there exactly when mediaCount
\* is greater than 1
C17_FilenameConvention ==
  probe.fn = "generateFilename" =>
    LET m == probe.input.metadata
        f == probe.output
    IN  /\ f.username = m.username
        /\ f.type = m.type
        /\ f.time \in {TickMs * k : k \in 1..(MaxTicks + 1)}
        /\ f.extension = (IF m.type \in {"reel", "igtv"} THEN "mp4" ELSE "jpg")
        /\ (f.suffix # <<>>) <=> (m.mediaCount > 1)
        /\ f.suffix # <<>> => f.suffix = <<probe.input.index + 1>>

C17_Witness ==
  /\ probe.fn = "generateFilename"
  /\ probe.input.metadata.mediaCount > 1
  /\ probe.input.index > 0
  /\ probe.input.metadata.type = "story"
  /\ probe.output.suffix = <<probe.input.index + 1>>
  /\ probe.output.extension = "jpg"

\* C18: every result extractMetadata returns for a post or a story has views
\* and duration absent; only results for reel and igtv carry them
C18_ViewsAndDurationOnlyForVideo ==
  \A t \in Tasks :
    call[t].outcome = "ok" =>
      /\ call[t].result.type \in {"post", "story"}
           => (call[t].result.views = <<>> /\ call[t].result.duration = <<>>)
      /\ call[t].result.type \in {"reel", "igtv"}
           => (call[t].result.views # <<>> /\ call[t].result.duration # <<>>)

\* C19: under any interleaving of concurrent extractMetadata calls at most
\* one browser process is live, and every live browser process is the one
\* the shared handle refers to
C19_AtMostOneBrowser ==
  /\ Cardinality({b \in Tasks : procs[b] = "live"}) <= 1
  /\ \A b \in Tasks : procs[b] = "live" => browser = b

C21_BrowserKeptAndReused ==
  [][(\A b \in Tasks : procs[b] # "dead" /\ procs'[b] # "dead") =>
     \A t \in Tasks :
       /\ (task[t].pc = "br_init" /\ task'[t].pc # "br_init"
           /\ browser # 0 /\ procs[browser] = "live")
            => (task'[t].pc = "br_page" /\ call'[t].proc = browser /\ procs' = procs)
       /\ (task[t].pc = "br_close" /\ task'[t].pc = "em_done")
            => (procs' = procs /\ browser' = browser)
       /\ (procs[t] # "live" /\ procs'[t] = "live")
            => (\A b \in Tasks : procs[b] # "live")]_vars

\* C22: for a URL classified as story, extractMetadata never runs the fast
\* extractor and issues no plain HTTP GET; after a cache miss it goes
\* directly to the browser-driven extraction
C22_StoriesSkipFastPath ==
  \A t \in Tasks :
    (task[t].kind # "none" /\ detectContentType(task[t].url) = "story") =>
      /\ task[t].pc \notin {"fast_json", "fast_html"}
      /\ ~call[t].fastFailed
      /\ call[t].source # "fast"
      /\ call[t].io > 0 => call[t].viaBrowser

C22_Witness ==
  \E t \in Tasks :
    /\ detectContentType(task[t].url) = "story"
    /\ validateInstagramUrl(task[t].url)
    /\ task[t].pc = "br_goto"
    /\ call[t].viaBrowser /\ call[t].io > 0

FastPcs == {"fast_json", "fast_html"}

\* C23: each call of extractMetadataFast has issued exactly one HTTP GET by
\* the time it returns or throws, whatever its outcome
C23_FastPathSingleGet ==
  [][\A t \in Tasks :
       ( \/ (task[t].pc \in FastPcs /\ task'[t].pc \notin FastPcs)
         \/ (task[t].pc = "em_call" /\ call'[t].fastFailed) )
         => call'[t].io = 1]_vars

\* The part of a URL before its query, and its query parameters other than
\* the five tracking parameters
BeforeQuery(url) ==
  LET q == IndexOf(url, "?", 1)
  IN  IF q = 0 THEN url ELSE SubSeq(url, 1, q - 1)

IsOtherParam(tok) ==
  tok # "&" /\ tok \notin {"utm_source=ig", "utm_medium=x", "utm_campaign=y", "igshid=abc", "hl=en"}

OtherParams(url) ==
  LET q == IndexOf(url, "?", 1)
  IN  IF q = 0 THEN <<>> ELSE SelectSeq(SubSeq(url, q + 1, Len(url)), IsOtherParam)

DifferOnlyInTracking(u, v) ==
  u # v /\ BeforeQuery(u) = BeforeQuery(v) /\ OtherParams(u) = OtherParams(v)

\* C24: two valid URLs that differ only in tracking parameters have the same
\* cache key, and no call extracts for one of them while a result stored
\* for the other is within the TTL
C24_TrackingParametersIgnored ==
  \A s, t \in Tasks :
    ( /\ task[s].kind # "none" /\ task[t].kind # "none"
      /\ validateInstagramUrl(task[s].url) /\ validateInstagramUrl(task[t].url)
      /\ DifferOnlyInTracking(task[s].url, task[t].url) )
      => /\ CacheKeyOf(revision, task[s].url) = CacheKeyOf(revision, task[t].url)
         /\ task[t].pc \in ExtractingPcs
              => ~WithinTtl(cache[CacheKeyOf(revision, task[s].url)])

\* C25: when closing the page fails in the cleanup step, the call ends with
\* the outcome it had before cleanup: the same result (still cached) or the
\* same error, not the close error
C25_CloseFailureKeepsOutcome ==
  [][\A t \in Tasks :
       (task[t].pc = "br_close" /\ task'[t].pc = "em_done" /\ call'[t].closeError)
         => /\ call'[t].outcome = call[t].outcome
            /\ call'[t].result = call[t].result
            /\ call'[t].msg = call[t].msg
            /\ call'[t].source = call[t].source
            /\ cache' = cache
            /\ call[t].outcome = "ok"
                 => (cache'[call[t].key].present /\ cache'[call[t].key].data = call[t].result)]_vars

C25_Witness ==
  \E s, t \in Tasks :
    /\ task[s].pc = "em_done" /\ call[s].closeError /\ call[s].outcome = "ok"
    /\ call[s].source = "browser" /\ cache[call[s].key].data = call[s].result
    /\ task[t].pc = "done" /\ downloads[t].status = "failed" /\ downloads[t].metadata = <<>>

\* The video URLs a response observer would have collected from the page's
\* network responses
ObservedVideoUrls(page) ==
  Dedupe(SelectSeq(page.responses, LAMBDA u : IncludesCdn(u) /\ IncludesMp4(u)))

\* C26: the candidates of the browser-driven extraction are the de-duplicated
\* union of the network-observed URLs and the URLs derived from the DOM, so a
\* video URL that appears only in a network response is selected as media
C26_NetworkObservedUrlsAreCandidates ==
  ( /\ probe.fn = "BrowserStage"
    /\ probe.input.evalOk
    /\ detectContentType(probe.input.url) \in {"reel", "igtv"}
    /\ EvaluatedVideoUrls(probe.input.page) = <<>>
    /\ probe.input.page.ogVideo = ""
    /\ ObservedVideoUrls(probe.input.page) # <<>> )
    => /\ probe.output.ok
       /\ \E i \in 1..Len(probe.output.meta.mediaUrls) :
            \E j \in 1..Len(ObservedVideoUrls(probe.input.page)) :
              probe.output.meta.mediaUrls[i] = ObservedVideoUrls(probe.input.page)[j]

\* The failures of a browser-driven story extraction that do not depend on
\* the credential
StoryFailures ==
  {"Failed to launch the browser process", "Protocol error: Target closed",
   "Navigation timeout of 6000 ms exceeded",
   "No story media found; it may be private, expired or requires login."
     \o " Try adding IG_SESSIONID environment variable for private stories."}

\* C27: the session cookie is on a page only for a story with IG_SESSIONID
\* configured, and is set before the navigation; without IG_SESSIONID a story
\* extraction takes the same steps with no cookie and fails only for the
\* reasons it fails for with a cookie
C27_CookieOnlyForStoriesWithSession ==
  \A t \in Tasks :
    /\ call[t].cookie => /\ detectContentType(task[t].url) = "story"
                         /\ igSession
                         /\ task[t].pc \in {"br_eval", "br_close", "em_done"}
    /\ (task[t].pc = "br_eval" /\ detectContentType(task[t].url) = "story")
         => (call[t].cookie <=> igSession)
    /\ (task[t].kind # "none" /\ detectContentType(task[t].url) = "story"
        /\ validateInstagramUrl(task[t].url) /\ call[t].outcome = "err")
         => call[t].msg \in StoryFailures

C27_Witness ==
  \E s, t \in Tasks :
    /\ detectContentType(task[t].url) = "story" /\ ~igSession
    /\ task[t].pc = "em_done" /\ call[t].source = "browser" /\ call[t].outcome = "ok"
    /\ ~call[t].cookie
    /\ task[s].pc = "done" /\ downloads[s].status = "failed"

PipelinePcs == {"pd_start", "em_done", "pd_download"}

\* C28: processDownload(id, url) writes only the status, metadata, filePath,
\* fileSize and downloadedAt of job id; the id, url, type and createdAt of
\* that job and every field of every other job are unchanged by it, also
\* when several jobs are processed concurrently
C28_PipelineFrame ==
  [][\A t \in Tasks :
       (downloads[t].status # "none" /\ downloads'[t] # downloads[t])
         => /\ task[t].kind = "process"
            /\ task[t].pc \in PipelinePcs /\ task'[t].pc # task[t].pc
            /\ downloads'[t].id = downloads[t].id
            /\ downloads'[t].url = downloads[t].url
            /\ downloads'[t].type = downloads[t].type
            /\ downloads'[t].createdAt = downloads[t].createdAt
            /\ \A u \in Tasks \ {t} : downloads'[u] = downloads[u]]_vars

C28_Witness ==
  \E s, t \in Tasks :
    /\ s # t
    /\ downloads[s].status = "processing" /\ downloads[s].metadata # <<>>
    /\ task[s].pc = "pd_download"
    /\ downloads[t].status = "processing" /\ task[t].pc \in {"fast_html", "br_goto"}
    /\ downloads[t].url # <<>> /\ downloads[t].id = t

\* C29: a job has status completed only if its metadata, filePath, fileSize
\* and downloadedAt are all set, and a job has a filePath only if its status
\* is completed
C29_CompletedHasFile ==
  \A t \in Tasks :
    /\ downloads[t].status = "completed"
         => /\ downloads[t].metadata # <<>>
            /\ downloads[t].filePath # ""
            /\ downloads[t].fileSize # <<>>
            /\ downloads[t].downloadedAt # <<>>
    /\ downloads[t].filePath # "" => downloads[t].status = "completed"

C29_Witness ==
  \E s, t \in Tasks :
    /\ downloads[s].status = "completed" /\ downloads[s].filePath = "downloads/file"
    /\ downloads[s].fileSize = <<1024>> /\ task[s].pc = "done"
    /\ downloads[t].status = "failed" /\ downloads[t].metadata # <<>>
    /\ downloads[t].filePath = ""

\* The content type of the path shape that validation matched
ShapeType(url) ==
  IF MatchesShape(url, "p") THEN "post"
  ELSE IF MatchesShape(url, "reel") THEN "reel"
  ELSE IF MatchesStoryShape(url) THEN "story"
  ELSE "igtv"

\* C30: for every URL that validateInstagramUrl accepts, detectContentType
\* returns the content type of the path shape that validation matched, so a
\* URL accepted as a story is classified as a story
C30_ClassifierAgreesWithValidator ==
  (probe.fn = "detectContentType" /\ validateInstagramUrl(probe.input.url))
    => probe.output = ShapeType(probe.input.url)

====
